---- MODULE Spec2Model ----
(***************************************************************************)
(* Model of the two scripts of the repository:                             *)
(*   create_smart_export.py  - the export assembler                        *)
(*   kimi_chat.py            - the interactive command relay               *)
(* Text (paths, file names, prompts, file contents) is a sequence of       *)
(* one-character strings, so that startswith / endswith / `in` / split /   *)
(* strip / lower are computed the way Python computes them.                *)
(***************************************************************************)
EXTENDS Integers, Sequences, FiniteSets, TLC

\* ------------------------------------------------------------------ bounds
\* at most this many files exist in the project tree at the start
MaxFiles == 2
\* at most this many invocations of create_smart_export are explored
MaxRuns == 2
\* the clock advances at most this many seconds past its start
MaxAdvance == 2

VARIABLES
    target_dir,   \* os.getcwd() of the export assembler (text)
    fs,           \* project tree: relative path (sequence of names) -> bytes
    dirs,         \* directories of the project tree (relative paths)
    exportsOut,   \* files written into <root>/exports: set of [name, writer, complete]
    clock,        \* UTC clock, seconds since the epoch
    runLog,       \* one entry per invocation of create_smart_export
    last,         \* outcome of the latest invocation
    rfs,          \* the relay's files under PROJECT_DIR: path -> [exists, text]
    rpc,          \* the chat loop: "prompt", "exited" or "crashed"
    rlast         \* what the latest call of get_response did

evars == <<target_dir, fs, dirs, exportsOut, clock, runLog, last>>
rvars == <<rfs, rpc, rlast>>
vars == <<target_dir, fs, dirs, exportsOut, clock, runLog, last, rfs, rpc, rlast>>

\* ------------------------------------------------------- text primitives
\* str.startswith
StartsWith(s, p) == Len(p) <= Len(s) /\ SubSeq(s, 1, Len(p)) = p

\* str.endswith
EndsWith(s, suf) ==
    Len(suf) <= Len(s) /\ SubSeq(s, Len(s) - Len(suf) + 1, Len(s)) = suf

\* the substring test `needle in hay`
Contains(needle, hay) ==
    \E i \in 0..(Len(hay) - Len(needle)) :
        SubSeq(hay, i + 1, i + Len(needle)) = needle

\* os.path.join of two parts
Join(a, b) ==
    IF StartsWith(b, <<"/">>) THEN b
    ELSE IF a = << >> \/ EndsWith(a, <<"/">>) THEN a \o b
    ELSE a \o <<"/">> \o b

\* os.path.basename
RECURSIVE Basename(_)
Basename(p) ==
    IF p = << >> THEN << >>
    ELSE IF p[Len(p)] = "/" THEN << >>
    ELSE Basename(SubSeq(p, 1, Len(p) - 1)) \o <<p[Len(p)]>>

Front(s) == SubSeq(s, 1, Len(s) - 1)
Last(s) == s[Len(s)]

\* the absolute path of a relative path (a sequence of names) under root
RECURSIVE AbsPath(_, _)
AbsPath(root, rel) ==
    IF rel = << >> THEN root
    ELSE AbsPath(Join(root, Head(rel)), Tail(rel))

\* the orders in which a directory listing can give the entries T:
\* os.listdir and os.walk promise no order
Orderings(T) ==
    { s \in [1..Cardinality(T) -> T] : \A x \in T : \E i \in DOMAIN s : s[i] = x }

\* ----------------------------------------------------- names of the code
DOT_GIT == <<".","g","i","t">>
NODE_MODULES == <<"n","o","d","e","_","m","o","d","u","l","e","s">>
EXPORTS == <<"e","x","p","o","r","t","s">>
HANDOVER == <<"h","a","n","d","o","v","e","r">>
DOT_MD == <<".","m","d">>

source_code_extensions ==
    << <<".","t","s">>, <<".","j","s">>, <<".","r","s">>, <<".","c","s","s">>, <<".","s","h">>, <<".","p","y">> >>

PlanNames == << <<"P","r","o","j","e","c","t","p","l","a","n",".","m","d">>, <<"N","o","c","k","c","h","a","i","n","p","r","o","j","e","c","t","p","l","a","n",".","m","d">> >>

KeyNames ==
    << <<"R","E","A","D","M","E",".","m","d">>, <<"C","L","A","U","D","E",".","m","d">>, <<"p","a","c","k","a","g","e",".","j","s","o","n">>, <<"d","o","c","k","e","r","-","c","o","m","p","o","s","e",".","y","m","l">> >>

\* ------------------------------------------------ project trees explored
\* documentation files (their content is read by the assembler)
DocUniverse ==
    { << <<"R","E","A","D","M","E",".","m","d">> >>, << <<"P","r","o","j","e","c","t","p","l","a","n",".","m","d">> >>,
      << HANDOVER, <<"h",".","m","d">> >>, << HANDOVER, <<"g",".","m","d">> >> }

\* other files (only their paths matter)
OtherUniverse ==
    { << HANDOVER, <<"n",".","t","x","t">> >>,
      << HANDOVER, <<"d",".","m","d">>, <<"x",".","t","x","t">> >>,
      << <<"a",".","p","y">> >>,
      << <<"b",".","j","s">> >>,
      << <<"s","r","c">>, <<"m","a","i","n",".","t","s">> >>,
      << DOT_GIT, <<"x",".","t","s">> >>,
      << <<".","g","i","t","h","u","b">>, <<"c","i",".","s","h">> >>,
      << NODE_MODULES, <<"m",".","j","s">> >>,
      << EXPORTS, <<"e",".","j","s">> >>,
      << <<"s","r","c">>, EXPORTS, <<"g",".","r","s">> >> }

Universe == DocUniverse \cup OtherUniverse

\* file contents as bytes; "xFF" is a byte that is not valid UTF-8
\* the last one has a CR LF pair and a lone CR
DocBytes == { << >>, <<"h", "xFF", "i">>, <<"a", "\r", "\n", "\r">> }
OtherBytes == { <<"c">> }

TargetDirs == { <<"/","p">>, <<"/","m","y","e","x","p","o","r","t","s">> }

\* the directories of a set of files: every proper prefix of a file path
DirsOf(paths) ==
    { << >> } \cup UNION { { SubSeq(f, 1, k) : k \in 0..(Len(f) - 1) } : f \in paths }

\* ------------------------------------------------------------ the clock
\* 2026-12-31 23:59:58 UTC and 2024-02-28 23:59:58 UTC
StartTimes == { 1798761598, 1709164798 }
TickSteps == { 1, 2 }

Digits == <<"0", "1", "2", "3", "4", "5", "6", "7", "8", "9">>
Pad2(n) == << Digits[((n \div 10) % 10) + 1], Digits[(n % 10) + 1] >>
Pad4(n) == Pad2(n \div 100) \o Pad2(n % 100)

\* proleptic Gregorian date of a day count since 1970-01-01
CivilFromDays(days) ==
    LET z == days + 719468
        era == z \div 146097
        doe == z - era * 146097
        yoe == (doe - doe \div 1460 + doe \div 36524 - doe \div 146096) \div 365
        doy == doe - (365 * yoe + yoe \div 4 - yoe \div 100)
        mp == (5 * doy + 2) \div 153
        d == doy - (153 * mp + 2) \div 5 + 1
        m == IF mp < 10 THEN mp + 3 ELSE mp - 9
        y == yoe + era * 400 + (IF m <= 2 THEN 1 ELSE 0)
    IN  [year |-> y, month |-> m, day |-> d]

\* a faulty variant, '%Y%m%d_%H%M': the seconds are left out
StrftimeNoSeconds(t) ==
    LET c == CivilFromDays(t \div 86400)
        sod == t % 86400
    IN  Pad4(c.year) \o Pad2(c.month) \o Pad2(c.day) \o <<"_">>
        \o Pad2(sod \div 3600) \o Pad2((sod % 3600) \div 60)

\* datetime.utcnow().strftime('%Y%m%d_%H%M%S')
Strftime(t) ==
    LET c == CivilFromDays(t \div 86400)
        sod == t % 86400
    IN  Pad4(c.year) \o Pad2(c.month) \o Pad2(c.day) \o <<"_">>
        \o Pad2(sod \div 3600) \o Pad2((sod % 3600) \div 60) \o Pad2(sod % 60)

\* ------------------------------------------------------ export assembler
\* the value of get_content: None, or the decoded text
None == [none |-> TRUE, text |-> << >>]
Some(t) == [none |-> FALSE, text |-> t]

\* the utf-8 decoder with errors='ignore': undecodable bytes are dropped
DropInvalid(bytes) == SelectSeq(bytes, LAMBDA b : b # "xFF")

\* universal newlines of a text-mode open (newline=None): "\r\n" and a
\* lone "\r" are read as "\n"
RECURSIVE TranslateNewlines(_)
TranslateNewlines(t) ==
    IF t = << >> THEN << >>
    ELSE IF Head(t) = "\r"
    THEN <<"\n">> \o TranslateNewlines(
             IF Len(t) >= 2 /\ t[2] = "\n" THEN SubSeq(t, 3, Len(t)) ELSE Tail(t))
    ELSE <<Head(t)>> \o TranslateNewlines(Tail(t))

\* what f.read() gives for the bytes of a file opened with
\* open(file_path, 'r', encoding='utf-8', errors='ignore')
Decode(bytes) == TranslateNewlines(DropInvalid(bytes))

\* get_content(file_path); ok says whether open/read succeeds this time
get_content(files, p, ok) ==
    IF ok /\ p \in DOMAIN files THEN Some(Decode(files[p])) ELSE None

\* Python truthiness of get_content's value: None and '' are false
Truthy(r) == ~r.none /\ r.text # << >>

\* os.path.exists of a path under the project root
Exists(files, ds, rel) == rel \in DOMAIN files \/ rel \in ds

\* [os.path.join(target_dir, p) for p in names if os.path.exists(...)]
ResolveNames(files, ds, names) ==
    SelectSeq(names, LAMBDA n : Exists(files, ds, <<n>>))

\* [os.path.join(handover_path, f) for f in os.listdir(handover_path)
\*     if f.endswith('.md')] if os.path.isdir(handover_path) else []
\* the listing gives files and sub-directories alike, in any order
HandoverFiles(files, ds) ==
    IF <<HANDOVER>> \in ds
    THEN Orderings({ Last(e) : e \in { g \in DOMAIN files \cup ds :
                        /\ g # << >>
                        /\ Front(g) = <<HANDOVER>>
                        /\ EndsWith(Last(g), DOT_MD) } })
    ELSE { << >> }

\* the regular files the run opens: the plan and key files that exist
\* and the .md entries of the handover listing
ReadPaths(files) ==
    { p \in DOMAIN files :
        \/ Len(p) = 1 /\ \E i \in DOMAIN PlanNames : PlanNames[i] = p[1]
        \/ Len(p) = 1 /\ \E i \in DOMAIN KeyNames : KeyNames[i] = p[1]
        \/ Len(p) = 2 /\ p[1] = HANDOVER /\ EndsWith(p[2], DOT_MD) }

\* what the two reads of path p are given; a path that is not a regular
\* file (a directory) cannot be opened
ReadOf(rd, p) ==
    IF p \in DOMAIN rd THEN rd[p] ELSE [first |-> FALSE, second |-> FALSE]

\* one list comprehension of the package: the filter reads the file, and
\* the record reads it again
RECURSIVE Records(_, _, _, _, _)
Records(root, files, prefix, names, rd) ==
    IF names = << >> THEN << >>
    ELSE LET p == prefix \o <<Head(names)>>
             first == get_content(files, p, ReadOf(rd, p).first)
             second == get_content(files, p, ReadOf(rd, p).second)
             abs == AbsPath(root, p)
         IN  (IF Truthy(first)
              THEN << [file_name |-> Basename(abs), file_path |-> abs,
                       content |-> second] >>
              ELSE << >>)
             \o Records(root, files, prefix, Tail(names), rd)

\* the reads made for one list, kept to state what the run was given
RECURSIVE Reads(_, _, _, _)
Reads(files, prefix, names, rd) ==
    IF names = << >> THEN << >>
    ELSE LET p == prefix \o <<Head(names)>>
             first == get_content(files, p, ReadOf(rd, p).first)
         IN  << [path |-> p, first |-> first,
                 second |-> IF Truthy(first)
                            THEN get_content(files, p, ReadOf(rd, p).second)
                            ELSE None,
                 twice |-> Truthy(first)] >>
             \o Reads(files, prefix, Tail(names), rd)

\* any(file.endswith(ext) for ext in source_code_extensions)
HasSourceExt(file) ==
    \E i \in DOMAIN source_code_extensions :
        EndsWith(file, source_code_extensions[i])

\* a faulty variant: the export output directory is not skipped
SkipRootNoExports(root) ==
    Contains(DOT_GIT, root) \/ Contains(NODE_MODULES, root)

\* if '.git' in root or 'node_modules' in root or 'exports' in root: continue
SkipRoot(root) ==
    Contains(DOT_GIT, root) \/ Contains(NODE_MODULES, root)
        \/ Contains(EXPORTS, root)

\* os.walk reaches a directory unless listing it or one of its ancestors
\* failed (os.walk ignores such errors)
Visited(d, bad) == \A k \in 0..Len(d) : SubSeq(d, 1, k) \notin bad

\* the files the walk appends to source_code_inventory
WalkHits(root, allfiles, bad) ==
    { f \in allfiles :
        /\ Visited(Front(f), bad)
        /\ ~SkipRoot(AbsPath(root, Front(f)))
        /\ HasSourceExt(Last(f)) }

\* rel lies in directory d or below it
Under(d, rel) == Len(rel) > Len(d) /\ SubSeq(rel, 1, Len(d)) = d

\* os.walk is top-down: the files of a directory come in one run, before
\* the files of its sub-directories, and each sub-tree is walked in one go
TopDown(s) ==
    \A d \in DirsOf({ s[i] : i \in DOMAIN s }) :
        /\ \A i, j, k \in DOMAIN s :
               (i < j /\ j < k /\ Under(d, s[i]) /\ Under(d, s[k])) => Under(d, s[j])
        /\ \A i, j \in DOMAIN s :
               (Front(s[i]) = d /\ Under(d, s[j]) /\ Front(s[j]) # d) => i < j

\* the values source_code_inventory can take: the order of the entries
\* of each directory is the listing's
Inventory(root, allfiles, bad) ==
    { [i \in DOMAIN hits |-> AbsPath(root, hits[i])] :
        hits \in { s \in Orderings(WalkHits(root, allfiles, bad)) : TopDown(s) } }

EmptyDoc ==
    [ git_commit |-> << >>, handover_documents |-> << >>,
      project_plans |-> << >>, key_files |-> << >>,
      source_code_inventory |-> << >> ]

NoRun ==
    [ status |-> "none", cause |-> "none", assembled |-> FALSE,
      doc |-> EmptyDoc, reads |-> << >>, bad |-> {}, output |-> << >>,
      fsAtWalk |-> {} ]

GitOutputs == { << >>, <<"a","1","b","2","c","3","d">> }
\* the try block of the write step: open, json.dump, then the print of the
\* success line, which stdout may be unable to encode
WriteOutcomes == { "ok", "open_fails", "dump_fails", "print_fails" }

\* what the two reads of one file can give: the second read is made only
\* when the first gave non-empty text
ReadOutcomes ==
    { [first |-> FALSE, second |-> FALSE], [first |-> TRUE, second |-> TRUE],
      [first |-> TRUE, second |-> FALSE] }

\* f'nockchain_smart_export_{timestamp}.json'
OutputName(t) == <<"n","o","c","k","c","h","a","i","n","_","s","m","a","r","t","_","e","x","p","o","r","t","_">> \o Strftime(t) \o <<".","j","s","o","n">>

\* the files of the tree as os.walk sees them
AllFiles(files, outs) == DOMAIN files \cup { <<EXPORTS, e.name>> : e \in outs }

\* final_package, given what the environment answers
Package(git, rd, handover_files, inventory) ==
    [ git_commit |-> git,
      handover_documents |->
          Records(target_dir, fs, <<HANDOVER>>, handover_files, rd),
      project_plans |->
          Records(target_dir, fs, << >>, ResolveNames(fs, dirs, PlanNames), rd),
      key_files |->
          Records(target_dir, fs, << >>, ResolveNames(fs, dirs, KeyNames), rd),
      source_code_inventory |-> inventory ]

AllReads(rd, handover_files) ==
    Reads(fs, <<HANDOVER>>, handover_files, rd)
        \o Reads(fs, << >>, ResolveNames(fs, dirs, PlanNames), rd)
        \o Reads(fs, << >>, ResolveNames(fs, dirs, KeyNames), rd)

LogEntry(w) == [ start |-> clock, name |-> OutputName(clock), wrote |-> w ]

\* create_smart_export(), one invocation
CreateSmartExport ==
    \/ \* os.makedirs raises: the run ends with a traceback
       /\ last' = [NoRun EXCEPT !.status = "crashed", !.cause = "makedirs",
                                !.output = <<"traceback">>]
       /\ runLog' = Append(runLog, LogEntry(FALSE))
       /\ UNCHANGED <<target_dir, fs, dirs, exportsOut, clock>>
    \/ \* os.listdir(handover_path) raises: the run ends with a traceback
       /\ <<HANDOVER>> \in dirs
       /\ last' = [NoRun EXCEPT !.status = "crashed", !.cause = "listdir",
                                !.output = <<"creating", "traceback">>]
       /\ dirs' = dirs \cup { <<EXPORTS>> }
       /\ runLog' = Append(runLog, LogEntry(FALSE))
       /\ UNCHANGED <<target_dir, fs, exportsOut, clock>>
    \/ \* the run reaches the write step
       \E git \in GitOutputs, wr \in WriteOutcomes :
       \E rd \in [ ReadPaths(fs) -> ReadOutcomes ] :
       \E bad \in { {} } \cup { {d} : d \in dirs \cup { <<EXPORTS>> } } :
       \E handover_files \in HandoverFiles(fs, dirs) :
       \E inventory \in Inventory(target_dir, AllFiles(fs, exportsOut), bad) :
        LET out_name == OutputName(clock)
            others == { e \in exportsOut : e.name # out_name }
            run == Len(runLog) + 1
            written == wr \in { "ok", "print_fails" }
        IN
        /\ dirs' = dirs \cup { <<EXPORTS>> }
        /\ last' = [ status |-> IF wr = "ok" THEN "success" ELSE "write_error",
                     cause |-> IF wr = "ok" THEN "none"
                               ELSE IF wr = "print_fails" THEN "print"
                               ELSE "write",
                     assembled |-> TRUE,
                     doc |-> Package(git, rd, handover_files, inventory),
                     reads |-> AllReads(rd, handover_files),
                     bad |-> bad,
                     output |-> <<"creating", "writing",
                                  IF wr = "ok" THEN "success" ELSE "error">>,
                     fsAtWalk |-> AllFiles(fs, exportsOut) ]
        /\ exportsOut' =
               IF written
               THEN others \cup { [name |-> out_name, writer |-> run, complete |-> TRUE] }
               ELSE IF wr = "dump_fails"
               THEN others \cup { [name |-> out_name, writer |-> run, complete |-> FALSE] }
               ELSE exportsOut
        /\ runLog' = Append(runLog, LogEntry(written))
        /\ UNCHANGED <<target_dir, fs, clock>>

\* time passes between invocations
Tick ==
    /\ \E d \in TickSteps :
        /\ \E t0 \in StartTimes : t0 <= clock /\ clock + d <= t0 + MaxAdvance
        /\ clock' = clock + d
    /\ UNCHANGED <<target_dir, fs, dirs, exportsOut, runLog, last>>

\* the project trees: any files of the universe, at most MaxFiles of them
Trees ==
    UNION { { f \in [F -> DocBytes \cup OtherBytes] :
                \A p \in F : IF p \in DocUniverse THEN f[p] \in DocBytes
                                                ELSE f[p] \in OtherBytes }
            : F \in { G \in SUBSET Universe : Cardinality(G) <= MaxFiles } }

\* successive invocations run on this tree
RunTree == ( << <<"R","E","A","D","M","E",".","m","d">> >> :> <<"h", "i">> ) @@ ( << <<"a",".","p","y">> >> :> <<"c">> )

\* --------------------------------------------------------- command relay
Upper == <<"A", "B", "C", "D", "E", "F", "G", "H", "I", "J", "K", "L", "M",
           "N", "O", "P", "Q", "R", "S", "T", "U", "V", "W", "X", "Y", "Z">>
Lowercase == <<"a", "b", "c", "d", "e", "f", "g", "h", "i", "j", "k", "l", "m",
               "n", "o", "p", "q", "r", "s", "t", "u", "v", "w", "x", "y", "z">>

\* str.lower
LowerChar(c) ==
    IF \E i \in DOMAIN Upper : Upper[i] = c
    THEN Lowercase[CHOOSE i \in DOMAIN Upper : Upper[i] = c]
    ELSE c

RECURSIVE Lower(_)
Lower(s) == IF s = << >> THEN << >> ELSE <<LowerChar(Head(s))>> \o Lower(Tail(s))

\* the characters for which str.isspace is true; those that TLA+ cannot
\* write as an escape are named by their code point
WhiteSpace ==
    { "\t", "\n", "x0B", "\f", "\r", "x1C", "x1D", "x1E", "x1F", " ",
      "x85", "xA0", "u1680", "u2000", "u2001", "u2002", "u2003", "u2004",
      "u2005", "u2006", "u2007", "u2008", "u2009", "u200A", "u2028",
      "u2029", "u202F", "u205F", "u3000" }

IsSpace(c) == c \in WhiteSpace

\* str.strip
RECURSIVE LStrip(_)
LStrip(s) ==
    IF s = << >> THEN << >>
    ELSE IF IsSpace(Head(s)) THEN LStrip(Tail(s)) ELSE s

RECURSIVE RStrip(_)
RStrip(s) ==
    IF s = << >> THEN << >>
    ELSE IF IsSpace(s[Len(s)]) THEN RStrip(SubSeq(s, 1, Len(s) - 1)) ELSE s

Strip(s) == RStrip(LStrip(s))

\* s[n:]
From(s, n) == SubSeq(s, n + 1, Len(s))

\* s.split(' ', 1)
Split1(s) ==
    IF \E i \in DOMAIN s : s[i] = " "
    THEN LET i == CHOOSE k \in DOMAIN s :
                    s[k] = " " /\ \A j \in 1..(k - 1) : s[j] # " "
         IN  << SubSeq(s, 1, i - 1), SubSeq(s, i + 1, Len(s)) >>
    ELSE << s >>

\* the text of an exception, as formatted into the error strings
ErrMsg == <<"e","r","r","n","o">>

\* no answer was asked for
NoAnswer == [eof |-> FALSE, interrupt |-> FALSE, text |-> << >>]

Absent == [exists |-> FALSE, text |-> << >>]
File(t) == [exists |-> TRUE, text |-> t]

\* os.path.exists(os.path.join(PROJECT_DIR, file_path)); the empty path is
\* PROJECT_DIR itself
PathExists(files, path) ==
    path = << >> \/ (path \in DOMAIN files /\ files[path].exists)

\* read_file(file_path); ok says whether open/read succeeds for a file
\* that is there
read_file(files, path, ok) ==
    IF path \in DOMAIN files /\ files[path].exists /\ ok
    THEN [ok |-> TRUE, ret |-> TranslateNewlines(files[path].text)]
    ELSE [ok |-> FALSE, ret |-> <<"E","r","r","o","r"," ","r","e","a","d","i","n","g",":"," ">> \o ErrMsg]

SetFile(files, path, f) ==
    [p \in DOMAIN files \cup {path} |-> IF p = path THEN f ELSE files[p]]

\* what a write that fails leaves in the file: the first n characters of
\* the text, never all of it
Kept(content, n) ==
    SubSeq(content, 1, IF n < Len(content) THEN n ELSE Len(content) - 1)

\* how many characters a failing write of content can leave
KeptChoices(content) == 0..(IF Len(content) = 0 THEN 0 ELSE Len(content) - 1)

\* a faulty variant: an existing file is overwritten without asking
write_file_no_confirm(files, path, content, env) ==
    LET existed == PathExists(files, path)
        base == [ existed |-> existed, prompted |-> FALSE, answer |-> NoAnswer,
                  opened |-> FALSE, wrote |-> FALSE, failed |-> FALSE,
                  interrupt |-> FALSE,
                  files |-> files, ret |-> << >> ]
    IN  IF path = << >> \/ ~env.openOk
        THEN [base EXCEPT !.failed = TRUE, !.ret = <<"E","r","r","o","r"," ","w","r","i","t","i","n","g",":"," ">> \o ErrMsg]
        ELSE IF ~env.writeOk
        THEN [base EXCEPT !.opened = TRUE, !.failed = TRUE,
                          !.files = SetFile(files, path, File(Kept(content, env.kept))),
                          !.ret = <<"E","r","r","o","r"," ","w","r","i","t","i","n","g",":"," ">> \o ErrMsg]
        ELSE [base EXCEPT !.opened = TRUE, !.wrote = TRUE,
                          !.files = SetFile(files, path, File(content)),
                          !.ret = <<"W","r","o","t","e"," ","t","o"," ">> \o path]

\* write_file(file_path, content); env gives the operator's answer and
\* whether open() and f.write() succeed
write_file(files, path, content, env) ==
    LET existed == PathExists(files, path)
        base == [ existed |-> existed, prompted |-> existed,
                  answer |-> IF existed THEN env.answer ELSE NoAnswer,
                  opened |-> FALSE, wrote |-> FALSE, failed |-> FALSE,
                  interrupt |-> FALSE,
                  files |-> files, ret |-> << >> ]
    IN  IF existed /\ env.answer.interrupt
        THEN \* input() raises KeyboardInterrupt, which `except Exception`
             \* does not catch: write_file raises
             [base EXCEPT !.interrupt = TRUE]
        ELSE IF existed /\ env.answer.eof
        THEN \* input() raises EOFError, caught by write_file
             [base EXCEPT !.failed = TRUE, !.ret = <<"E","r","r","o","r"," ","w","r","i","t","i","n","g",":"," ">> \o ErrMsg]
        ELSE IF existed /\ Lower(env.answer.text) # <<"y">>
        THEN [base EXCEPT !.ret = <<"C","a","n","c","e","l","l","e","d">>]
        ELSE IF path = << >> \/ ~env.openOk
        THEN \* open(full_path, 'w') raises
             [base EXCEPT !.failed = TRUE, !.ret = <<"E","r","r","o","r"," ","w","r","i","t","i","n","g",":"," ">> \o ErrMsg]
        ELSE IF ~env.writeOk
        THEN \* open() has truncated the file, then f.write or the close
             \* of the with block raises: part of the text may be there
             [base EXCEPT !.opened = TRUE, !.failed = TRUE,
                          !.files = SetFile(files, path, File(Kept(content, env.kept))),
                          !.ret = <<"E","r","r","o","r"," ","w","r","i","t","i","n","g",":"," ">> \o ErrMsg]
        ELSE [base EXCEPT !.opened = TRUE, !.wrote = TRUE,
                          !.files = SetFile(files, path, File(content)),
                          !.ret = <<"W","r","o","t","e"," ","t","o"," ">> \o path]

\* the prompt that edit sends to the chat completion API
EditPrompt(content, instruction) ==
    <<"O","r","i","g","i","n","a","l",":"," ">> \o content \o <<"\n","E","d","i","t"," ","p","e","r",":"," ">> \o instruction
        \o <<"\n","O","u","t","p","u","t"," ","f","u","l","l"," ","u","p","d","a","t","e","d"," ","c","o","d","e"," ","o","n","l","y",".">>

\* what a call of get_response did, when it did nothing yet
Idle ==
    [ cmd |-> "none", ret |-> << >>, raised |-> FALSE, interrupt |-> FALSE,
      files |-> << >>,
      path |-> << >>, arg |-> << >>,
      readCalled |-> FALSE, readOk |-> FALSE,
      apiCalled |-> FALSE, apiPrompt |-> << >>, apiOk |-> FALSE,
      response |-> << >>,
      wfCalled |-> FALSE, existed |-> FALSE, prompted |-> FALSE,
      answer |-> NoAnswer, opened |-> FALSE, wrote |-> FALSE, failed |-> FALSE ]

WithWrite(r, w) ==
    [r EXCEPT !.wfCalled = TRUE, !.existed = w.existed, !.prompted = w.prompted,
              !.answer = w.answer,
              !.opened = w.opened, !.wrote = w.wrote, !.failed = w.failed,
              !.raised = w.interrupt, !.interrupt = w.interrupt,
              !.files = w.files, !.ret = w.ret]

\* the outcome of client.chat.completions.create in call a: an answer, an
\* Exception, or a KeyboardInterrupt while the call waits
ApiRaised(a, api) ==
    IF api.interrupt THEN [a EXCEPT !.raised = TRUE, !.interrupt = TRUE]
    ELSE [a EXCEPT !.raised = TRUE, !.failed = TRUE]

\* the body of get_response's try block; raised says that an exception
\* leaves the block
Dispatch(prompt, files, env) ==
    LET start == [Idle EXCEPT !.files = files]
    IN
    IF StartsWith(Lower(prompt), <<"r","e","a","d"," ">>)
    THEN LET file_path == Strip(From(prompt, 5))
             r == read_file(files, file_path, env.readOk)
         IN  [start EXCEPT !.cmd = "read", !.path = file_path,
                           !.readCalled = TRUE, !.readOk = r.ok,
                           !.failed = ~r.ok, !.ret = r.ret]
    ELSE IF StartsWith(Lower(prompt), <<"w","r","i","t","e"," ">>)
    THEN LET parts == Split1(From(prompt, 6))
         IN  IF Len(parts) < 2
             THEN [start EXCEPT !.cmd = "write_usage",
                                !.ret = <<"U","s","a","g","e",":"," ","w","r","i","t","e"," ","<","f","i","l","e",">"," ","<","c","o","n","t","e","n","t",">">>]
             ELSE WithWrite([start EXCEPT !.cmd = "write", !.path = parts[1],
                                          !.arg = parts[2]],
                            write_file(files, parts[1], parts[2], env))
    ELSE IF StartsWith(Lower(prompt), <<"e","d","i","t"," ">>)
    THEN LET parts == Split1(From(prompt, 5))
         IN  IF Len(parts) < 2
             THEN [start EXCEPT !.cmd = "edit_usage",
                                !.ret = <<"U","s","a","g","e",":"," ","e","d","i","t"," ","<","f","i","l","e",">"," ","<","i","n","s","t","r","u","c","t","i","o","n",">">>]
             ELSE LET r == read_file(files, parts[1], env.readOk)
                      e == [start EXCEPT !.cmd = "edit", !.path = parts[1],
                                         !.arg = parts[2], !.readCalled = TRUE,
                                         !.readOk = r.ok]
                  IN  IF Contains(<<"E","r","r","o","r">>, r.ret)
                      THEN [e EXCEPT !.failed = ~r.ok, !.ret = r.ret]
                      ELSE LET a == [e EXCEPT !.apiCalled = TRUE,
                                       !.apiPrompt = EditPrompt(r.ret, parts[2]),
                                       !.apiOk = env.api.ok,
                                       !.response = env.api.content]
                           IN  IF ~env.api.ok
                               THEN ApiRaised(a, env.api)
                               ELSE LET w == WithWrite(a,
                                              write_file(files, parts[1],
                                                         env.api.content, env))
                                    IN  IF w.raised THEN w
                                        ELSE [w EXCEPT !.ret = w.ret
                                                \o <<"\n","N","e","w"," ","c","o","n","t","e","n","t",":","\n">>
                                                \o env.api.content]
    ELSE LET a == [start EXCEPT !.cmd = "chat", !.apiCalled = TRUE,
                                !.apiPrompt = prompt, !.apiOk = env.api.ok,
                                !.response = env.api.content]
         IN  IF ~env.api.ok
             THEN ApiRaised(a, env.api)
             ELSE [a EXCEPT !.ret = env.api.content]

\* get_response(prompt): the try block, and `except Exception as e`,
\* which lets a KeyboardInterrupt through
get_response(prompt, files, env) ==
    LET r == Dispatch(prompt, files, env)
    IN  IF r.raised /\ ~r.interrupt
        THEN [r EXCEPT !.raised = FALSE, !.ret = <<"E","r","r","o","r",":"," ">> \o ErrMsg]
        ELSE r

\* the lines typed at the prompt
Lines ==
    { <<"r","e","a","d"," ","f">>, <<" ","R","E","A","D"," "," ","f"," ">>, <<"r","e","a","d","i","n","g">>,
      <<"w","r","i","t","e"," ","f"," ","h","i">>, <<"w","r","i","t","e"," ","f"," ","a"," ","b">>, <<"W","r","i","t","e"," ","f">>, <<"w","r","i","t","e"," "," ","f"," ","h","i">>,
      <<"e","d","i","t"," ","f"," ","f","i","x">>, <<"e","d","i","t"," ","f">>, <<"E","D","I","T"," ","f"," ","g","o"," ","o","n">>,
      <<"h","e","l","l","o">>, << >>,
      <<"e","x","i","t">>, <<" ","E","X","I","T"," ">>, <<"e","x","i","t"," ","n","o","w">>,
      <<"e","x","i","t","\r">>, <<"xA0", "e", "x", "i", "t", "x0B">>, <<"r","e","a","d"," ","\r","f">> }

\* the operator's answers to `Overwrite ...? (y/n): ` (or end of input)
Answers ==
    { [eof |-> FALSE, interrupt |-> FALSE, text |-> <<"y">>],
      [eof |-> FALSE, interrupt |-> FALSE, text |-> <<"Y">>],
      [eof |-> FALSE, interrupt |-> FALSE, text |-> <<"n">>],
      [eof |-> FALSE, interrupt |-> FALSE, text |-> <<" ","y">>],
      [eof |-> TRUE, interrupt |-> FALSE, text |-> << >>],
      [eof |-> FALSE, interrupt |-> TRUE, text |-> << >>] }

\* what the chat completion API does with a request
ApiOutcomes ==
    { [ok |-> FALSE, interrupt |-> FALSE, content |-> << >>],
      [ok |-> FALSE, interrupt |-> TRUE, content |-> << >>],
      [ok |-> TRUE, interrupt |-> FALSE, content |-> <<"o","k">>] }

Envs ==
    [ readOk : BOOLEAN, answer : Answers, openOk : BOOLEAN, writeOk : BOOLEAN,
      kept : Nat,
      api : ApiOutcomes ]

RelayPaths == { <<"f">> }
InitialFiles ==
    { Absent, File(<< >>), File(<<"a","b">>), File(<<"E","r","r","o","r","!">>), File(<<"a","\r","\n","b","\r","c">>) }

\* the environment in which nothing fails and the operator agrees
Agreeable ==
    [ readOk |-> TRUE,
      answer |-> [eof |-> FALSE, interrupt |-> FALSE, text |-> <<"y">>],
      openOk |-> TRUE, writeOk |-> TRUE, kept |-> 0,
      api |-> [ok |-> TRUE, interrupt |-> FALSE, content |-> <<"o","k">>] ]

\* the exceptions input("Prompt: ") can raise: end of input (EOFError), an
\* interrupt from the keyboard (KeyboardInterrupt), input bytes that do not
\* decode (UnicodeDecodeError), a standard output that is closed when the
\* prompt is written (RuntimeError, OSError)
InputFailures == { "eof", "interrupt", "decode", "stdout" }

\* stop says what ended the loop abnormally: one of InputFailures, "print"
\* (the print of the response raised), "raised" (get_response raised), or
\* "none"
NoCall == [ line |-> << >>, stop |-> "none", before |-> << >>, call |-> Idle ]

\* one turn of the chat loop: prompt = input("Prompt: ").strip(), the exit
\* test, get_response.  Each answer of the environment is drawn only when
\* the call asks for it (a call that reads no file is given no read outcome).
ChatStep ==
    /\ rpc = "prompt"
    /\ \/ \* input("Prompt: ") raises; nothing catches it, and the process
          \* ends with a traceback
          \E why \in InputFailures :
          /\ rpc' = "crashed"
          /\ rlast' = [NoCall EXCEPT !.stop = why, !.before = rfs]
          /\ rfs' = rfs
       \/ \E line \in Lines :
        LET prompt == Strip(line)
        IN  IF Lower(prompt) = <<"e","x","i","t">>
            THEN /\ rpc' = "exited"
                 /\ rlast' = [NoCall EXCEPT !.line = line, !.before = rfs]
                 /\ rfs' = rfs
            ELSE
              \E readOk \in IF Dispatch(prompt, rfs, Agreeable).readCalled
                            THEN BOOLEAN ELSE {TRUE} :
              LET e1 == [Agreeable EXCEPT !.readOk = readOk] IN
              \E api \in IF Dispatch(prompt, rfs, e1).apiCalled
                         THEN ApiOutcomes ELSE {Agreeable.api} :
              LET e2 == [e1 EXCEPT !.api = api] IN
              \E answer \in IF Dispatch(prompt, rfs, e2).prompted
                            THEN Answers ELSE {Agreeable.answer} :
              LET e3 == [e2 EXCEPT !.answer = answer] IN
              \E openOk \in IF Dispatch(prompt, rfs, e3).opened
                            THEN BOOLEAN ELSE {TRUE} :
              LET e4 == [e3 EXCEPT !.openOk = openOk] IN
              \E writeOk \in IF Dispatch(prompt, rfs, e4).opened
                             THEN BOOLEAN ELSE {TRUE} :
              LET e5 == [e4 EXCEPT !.writeOk = writeOk]
                  c == Dispatch(prompt, rfs, e5)
              IN
              \E kept \in IF c.opened /\ c.failed
                          THEN KeptChoices(IF c.cmd = "edit" THEN c.response ELSE c.arg)
                          ELSE {0} :
              \* print("\nResponse:\n", response) is outside any try: when
              \* standard output is closed or cannot encode the response it
              \* raises, and the process ends with a traceback
              \E printOk \in BOOLEAN :
                LET env == [e5 EXCEPT !.kept = kept]
                    r == get_response(prompt, rfs, env)
                    stop == IF r.raised THEN "raised"
                            ELSE IF ~printOk THEN "print" ELSE "none"
                IN  /\ env \in Envs
                    /\ rfs' = r.files
                    /\ rlast' = [line |-> line, stop |-> stop, before |-> rfs,
                                 call |-> r]
                    /\ rpc' = IF stop = "none" THEN "prompt" ELSE "crashed"

ExportIdle(times) ==
    /\ target_dir = <<"/","p">>
    /\ fs = RunTree
    /\ dirs = DirsOf(DOMAIN fs)
    /\ exportsOut = {}
    /\ clock \in times
    /\ runLog = << >>
    /\ last = NoRun

RelayIdle ==
    /\ rfs = [p \in RelayPaths |-> Absent]
    /\ rpc = "prompt"
    /\ rlast = NoCall

\* ------------------------------------------------------- specifications
InitExport ==
    /\ target_dir \in TargetDirs
    /\ fs \in Trees
    /\ dirs = DirsOf(DOMAIN fs)
    /\ exportsOut = {}
    /\ clock = 1798761598
    /\ runLog = << >>
    /\ last = NoRun
    /\ RelayIdle

\* one invocation of the export assembler, on every tree
NextExport == runLog = << >> /\ CreateSmartExport /\ UNCHANGED rvars

SpecExport == InitExport /\ [][NextExport]_vars

\* successive invocations on one tree, with time passing in between
InitRuns == ExportIdle(StartTimes) /\ RelayIdle

NextRuns ==
    \/ Len(runLog) < MaxRuns /\ CreateSmartExport /\ UNCHANGED rvars
    \/ Tick /\ UNCHANGED rvars

SpecRuns == InitRuns /\ [][NextRuns]_vars

\* a session of the command relay
InitRelay ==
    /\ ExportIdle({ 1798761598 })
    /\ rfs \in [RelayPaths -> InitialFiles]
    /\ rpc = "prompt"
    /\ rlast = NoCall

NextRelay == ChatStep /\ UNCHANGED evars

SpecRelay == InitRelay /\ [][NextRelay]_vars

\* -------------------------------------------------------------- claims
\* a file path of the tree lies under a directory called .git, node_modules
\* or exports
UnderExcludedName(f) ==
    \E k \in 1..(Len(f) - 1) : f[k] \in { DOT_GIT, NODE_MODULES, EXPORTS }

\* a file path of the tree lies under a .git or node_modules directory, or
\* under the export output directory <root>/exports
UnderExcludedDir(f) ==
    \/ \E k \in 1..(Len(f) - 1) : f[k] \in { DOT_GIT, NODE_MODULES }
    \/ Len(f) > 1 /\ f[1] = EXPORTS

\* how often path p is listed in the inventory
TimesListed(p) ==
    Cardinality({ i \in 1..Len(last.doc.source_code_inventory) :
                    last.doc.source_code_inventory[i] = p })

ContentRecords ==
    last.doc.handover_documents \o last.doc.project_plans \o last.doc.key_files

\* C1: after the walk, every path in source_code_inventory ends with an
\* allow-listed extension and is the path of a file that lies under no
\* .git, node_modules or exports directory (so no export output is listed).
C1_InventoryEntriesAllowed ==
    \A i \in 1..Len(last.doc.source_code_inventory) :
        LET p == last.doc.source_code_inventory[i]
        IN  /\ \E k \in DOMAIN source_code_extensions :
                    EndsWith(p, source_code_extensions[k])
            /\ \E f \in last.fsAtWalk :
                    AbsPath(target_dir, f) = p /\ ~UnderExcludedName(f)

\* C1 witness: a finished run listed a file while the tree also held a file
\* with an allow-listed extension under an excluded directory.
C1_Witness ==
    /\ last.status = "success"
    /\ Len(last.doc.source_code_inventory) >= 1
    /\ \E f \in last.fsAtWalk : HasSourceExt(Last(f)) /\ UnderExcludedName(f)

\* C2: in every assembled export document no record of handover_documents,
\* project_plans or key_files has a null content, whatever each read gives.
C2_NoNullContent ==
    last.assembled =>
        \A i \in 1..Len(ContentRecords) : ~ContentRecords[i].content.none

\* C3: the inventory is complete: every file with an allow-listed extension
\* is listed exactly once unless it lies under a .git directory, a
\* node_modules directory or <root>/exports (stated for the runs in which
\* the walk could list every directory).
C3_InventoryComplete ==
    (last.assembled /\ last.bad = {}) =>
        \A f \in last.fsAtWalk :
            (HasSourceExt(Last(f)) /\ ~UnderExcludedDir(f))
                => TimesListed(AbsPath(target_dir, f)) = 1

\* C4: for every resolved handover, plan or key file whose content reads
\* successfully the export holds one record carrying the file's full text;
\* a record is omitted only when the content could not be read or decoded
\* (stated for files of valid UTF-8 whose every read succeeds; the text is
\* the file's characters with every line end read as a line feed).
C4_ReadableNeverOmitted ==
    last.assembled =>
        \A i \in 1..Len(last.reads) :
            LET e == last.reads[i]
            IN  (/\ ~e.first.none
                 /\ e.twice => ~e.second.none
                 /\ DropInvalid(fs[e.path]) = fs[e.path])
                => Cardinality({ j \in 1..Len(ContentRecords) :
                        /\ ContentRecords[j].file_path = AbsPath(target_dir, e.path)
                        /\ ContentRecords[j].content
                               = Some(TranslateNewlines(fs[e.path])) }) = 1

\* C5: a run fails only when creating the exports directory or writing the
\* output file fails, and the error is then reported; a failure of a read,
\* of the handover listing, of the walk or of git never aborts the run
\* (stated for the runs whose standard output can print the success line).
C5_OnlyMakedirsOrWriteFails ==
    (last.status \in { "crashed", "write_error" } /\ last.cause # "print") =>
        /\ last.cause \in { "makedirs", "write" }
        /\ last.output[Len(last.output)] \in { "error", "traceback" }

\* C6: runs started in different UTC seconds target different file names
\* (only runs started in the same second share a name), and a file a run
\* wrote is still there, as that run wrote it, as long as no later run
\* started in the same second.
C6_DistinctSecondsDistinctFiles ==
    /\ \A i, j \in 1..Len(runLog) :
          runLog[i].name = runLog[j].name <=> runLog[i].start = runLog[j].start
    /\ \A i \in 1..Len(runLog) :
          (/\ runLog[i].wrote
           /\ \A j \in (i + 1)..Len(runLog) : runLog[j].start # runLog[i].start)
          => [name |-> runLog[i].name, writer |-> i, complete |-> TRUE] \in exportsOut

\* C6 witness: two runs started in different seconds both wrote their file,
\* and the exports directory holds both.
C6_Witness ==
    /\ Len(runLog) = 2
    /\ runLog[1].wrote /\ runLog[2].wrote
    /\ runLog[1].start # runLog[2].start
    /\ Cardinality(exportsOut) = 2

\* the file at a path, Absent when there is none
FileAt(files, path) == IF path \in DOMAIN files THEN files[path] ELSE Absent

\* the path named by the latest call existed before the call
ExistedBefore ==
    PathExists(rlast.before, rlast.call.path)

\* C7 as stated: for the write command, confirmation is requested exactly
\* when the target exists, the content is replaced exactly when the target
\* did not exist or the answer was 'y', an existing file without a 'y'
\* answer is left unchanged with 'Cancelled' returned, and a new file is
\* written with the given text without a prompt.
C7_WriteExactlyWhenConfirmed ==
    LET c == rlast.call
    IN  c.cmd = "write" =>
            /\ c.prompted <=> ExistedBefore
            /\ c.opened <=> (~ExistedBefore \/ c.answer.text = <<"y">>)
            /\ (ExistedBefore /\ c.answer.text # <<"y">>)
                    => (rfs = rlast.before /\ c.ret = <<"C","a","n","c","e","l","l","e","d">>)
            /\ ~ExistedBefore
                    => (~c.prompted /\ FileAt(rfs, c.path) = File(c.arg))

\* C7 amended: confirmation is requested exactly when the target path
\* exists; the files change only if the target did not exist or the answer,
\* lower-cased, was 'y', and then the target holds the given text unless
\* open() or the write fails; an existing target without such an answer is
\* left unchanged, with 'Cancelled' returned whenever an answer was read;
\* a target that does not exist is never prompted for.
C7_WriteOnlyWhenConfirmed ==
    LET c == rlast.call
        read == ~c.answer.eof /\ ~c.answer.interrupt
        agreed == read /\ Lower(c.answer.text) = <<"y">>
    IN  c.cmd = "write" =>
            /\ c.prompted <=> ExistedBefore
            /\ rfs # rlast.before => (~ExistedBefore \/ agreed)
            /\ ((~ExistedBefore \/ agreed) /\ ~c.failed)
                    => (FileAt(rfs, c.path) = File(c.arg) /\ c.ret = <<"W","r","o","t","e"," ","t","o"," ">> \o c.path)
            /\ (ExistedBefore /\ ~agreed)
                    => (/\ rfs = rlast.before
                        /\ read => c.ret = <<"C","a","n","c","e","l","l","e","d">>)

\* C7 witness: a write command on an existing file was confirmed and the
\* file now holds the given text.
C7_Witness ==
    /\ rlast.call.cmd = "write"
    /\ ExistedBefore /\ rlast.call.prompted
    /\ FileAt(rlast.before, rlast.call.path).text # rlast.call.arg
    /\ FileAt(rfs, rlast.call.path) = File(rlast.call.arg)

\* C8: an edit of a file that can be read sends the file's content (as
\* read_file gives it, line ends read as line feeds) and the instruction to
\* the API and, when the call succeeds, writes the response
\* back, so that the file then holds the response (stated for the edits
\* whose overwrite the operator confirms and whose write succeeds).
C8_EditWritesResponseBack ==
    LET c == rlast.call
    IN  (c.cmd = "edit" /\ c.readOk) =>
            /\ c.apiCalled
            /\ c.apiPrompt
                 = EditPrompt(TranslateNewlines(FileAt(rlast.before, c.path).text), c.arg)
            /\ (c.apiOk /\ Lower(c.answer.text) = <<"y">> /\ ~c.failed)
                    => FileAt(rfs, c.path) = File(c.response)

\* C9: the chat loop ends only on an exit command: whenever the loop is no
\* longer prompting, it ended normally and the line it was given last is
\* 'exit' after trimming, case-insensitively (stated for the sessions in
\* which no interrupt arrives, the input decodes and every response can be
\* printed).
C9_LoopEndsOnlyOnExit ==
    (rpc # "prompt" /\ rlast.stop \in { "none", "eof" }) =>
        (rpc = "exited" /\ Lower(Strip(rlast.line)) = <<"e","x","i","t">>)

\* C10: get_response never raises; whenever a file operation or the API
\* call fails it returns a string containing an error indicator, and no
\* file has been modified (stated for the calls during which no keyboard
\* interrupt arrives).
C10_FailureModifiesNothing ==
    ~rlast.call.interrupt =>
        /\ ~rlast.call.raised
        /\ rlast.call.failed =>
                (Contains(<<"E","r","r","o","r">>, rlast.call.ret) /\ rfs = rlast.before)
====
